---- MODULE Spec2Model ----
(***************************************************************************)
(* A model of the PF watermark (watermark/pf/pf.py): PFUtils (permutation  *)
(* table, context hashing, perturbed sampling, token scoring, threshold)   *)
(* and PF (generation loop, detection).                                    *)
(*                                                                         *)
(* Conventions.  Token lists are sequences (1-indexed here, 0-indexed in   *)
(* Python: Python's x[i] is x[i+1]).  Vocabulary-sized vectors are         *)
(* functions over 0..VocabSize-1, so they keep Python's indices.           *)
(* Python integers that may exceed 32 bits (the seeds) are held by their   *)
(* residues modulo the prime factors of 2^64 - 1, which is exact for every *)
(* value in 0 .. 2^64 - 2 (Chinese remainder theorem).                     *)
(* Floats: a uniform draw is one of Levels(k) = k / NLevels; -log of a     *)
(* draw is held in thousandths; a probability vector is held as integer    *)
(* weights.                                                                *)
(***************************************************************************)
EXTENDS Integers, Sequences, FiniteSets, TLC

VARIABLES
    config,       \* PFConfig: the parameters every PFUtils/PF instance is built from
    default_rng,  \* torch's process-wide default generator: how many draws it has served
    utils,        \* the PFUtils instances: hashtable and rng of each
    inp,          \* the arguments the calls of this behaviour are made with
    ret,          \* what the last call returned (or raised)
    gen,          \* generate_watermarked_text: the decoding loop's locals
    thr           \* concurrent callers of one PFUtils: each caller's position and locals

vars == <<config, inp, default_rng, utils, ret, gen, thr>>

----------------------------------------------------------------------------
(* Bounds of the model *)

VocabSize == 3       \* generation_tokenizer.vocab_size
MaxNgram == 2        \* config.ngram ranges over 1..MaxNgram
MaxPayload == 1      \* config.payload and payload_max range over 0..MaxPayload
MaxTextLen == 4      \* detection: a text has at most MaxTextLen tokens
PhraseNgram == 4     \* detection: config.ngram ranges over 1..PhraseNgram
MaxReps == 10        \* detection: a phrase of ngram tokens is repeated up to MaxReps times
MaxSeqLen == 4       \* config.max_seq_len
MaxPromptLen == 2    \* generation: a prompt has 1..MaxPromptLen tokens
MaxGenLen == 2       \* generation: max_gen_len ranges over 1..MaxGenLen
NCallers == 2        \* concurrency: callers running on one instance

Vocab == 0 .. (VocabSize - 1)
Inst == {1, 2}

(* Program constants *)
TableLen == 1000003  \* len(self.hashtable)

----------------------------------------------------------------------------
(* Python integers modulo 2^64 - 1 *)

\* 2^64 - 1 = 3 * 5 * 17 * 257 * 641 * 65537 * 6700417
Mod64Factors == <<3, 5, 17, 257, 641, 65537, 6700417>>

\* The Python int x (0 <= x < 2^31), as its residues.
Big(x) == [j \in 1..7 |-> x % Mod64Factors[j]]

\* 2^64 - 1 - x, as its residues (1 <= x < 2^31).
BigBelowModulus(x) == [j \in 1..7 |-> (Mod64Factors[j] - (x % Mod64Factors[j])) % Mod64Factors[j]]

\* (seed * salt_key + t) % (2 ** 64 - 1); salt_key <= 320 keeps every product in 32 bits.
HashStep(seed, salt_key, t) ==
    [j \in 1..7 |-> (seed[j] * (salt_key % Mod64Factors[j]) + t) % Mod64Factors[j]]

\* for i in input_ids: seed = (seed * salt_key + i.item()) % (2 ** 64 - 1)
RECURSIVE HashFold(_, _, _)
HashFold(seed, salt_key, input_ids) ==
    IF input_ids = <<>> THEN seed
    ELSE HashFold(HashStep(seed, salt_key, Head(input_ids)), salt_key, Tail(input_ids))

----------------------------------------------------------------------------
(* torch: randperm, Generator, rand, roll, sort *)

\* torch.randperm(TableLen) drawn from the default generator in state g: entry x of
\* the permutation.  The generator is torch's; it is held here as a family of
\* permutations of 0..TableLen-1 (TableLen is prime, the multiplier is not a multiple
\* of it), one per generator state.
RandPermAt(g, x) == ((2 * g + 3) * x + 1009 * g + 17) % TableLen

\* Generator.manual_seed(seed)
ManualSeed(seed) == [seed |-> seed, pos |-> 0]

\* -log(level / NLevels) in thousandths, for the levels 1 .. NLevels-1
NegLogMilli == <<2079, 1386, 981, 693, 470, 288, 134>>

NLevels == Len(NegLogMilli) + 1

\* -log(1e-4) in thousandths: what an exact-zero draw scores after rs[rs == 0] = 1e-4
NegLogMilliOfEps == 9210

\* The k-th float a generator seeded with `seed` serves, as a level: the float is
\* level / NLevels, in [0, 1).
RandLevel(seed, k) ==
    ((seed[7] + 3 * seed[6] + 5 * seed[5] + 7 * seed[4] + 11 * seed[3]
        + 13 * seed[2] + 17 * seed[1]) * (2 * k + 1) + k * (k + 3)) % NLevels

\* torch.rand(n, generator=rng): the n floats, and the generator after them.
Rand(rng, n) ==
    [rs  |-> [i \in 0 .. (n - 1) |-> RandLevel(rng.seed, rng.pos + i)],
     rng |-> [rng EXCEPT !.pos = @ + n]]

\* A roll in the opposite direction: out[i] = x[(i + shift) % n]
RollReversed(x, shift) ==
    LET n == Cardinality(DOMAIN x)
    IN  [i \in DOMAIN x |-> x[(i + shift) % n]]

\* x.roll(shift): out[(i + shift) % n] = x[i]
Roll(x, shift) ==
    LET n == Cardinality(DOMAIN x)
    IN  [i \in DOMAIN x |-> x[(i - shift) % n]]


\* Python's x[start:stop] on a list or tensor row of length n, start and stop
\* integers: a negative index counts from the end, and both are clamped to 0..n.
PySlice(x, start, stop) ==
    LET n  == Len(x)
        lo == IF start < 0 THEN (IF start + n < 0 THEN 0 ELSE start + n)
              ELSE (IF start > n THEN n ELSE start)
        hi == IF stop < 0 THEN (IF stop + n < 0 THEN 0 ELSE stop + n)
              ELSE (IF stop > n THEN n ELSE stop)
    IN  IF hi <= lo THEN <<>> ELSE [i \in 1 .. (hi - lo) |-> x[lo + i]]

\* torch.sort(probs, descending=True): probs_idx[j] is the token at sorted place j.
\* Equal probabilities are placed by token id (the model's inputs hold none).
SortIdx(p) ==
    [j \in DOMAIN p |->
        CHOOSE t \in DOMAIN p :
            Cardinality({u \in DOMAIN p : p[u] > p[t] \/ (p[u] = p[t] /\ u < t)}) = j]

\* torch.cumsum(x)[j]
RECURSIVE CumSum(_, _)
CumSum(x, j) == IF j = 0 THEN x[0] ELSE CumSum(x, j - 1) + x[j]

Min(S) == CHOOSE x \in S : \A y \in S : x <= y

----------------------------------------------------------------------------
(* PFUtils *)

Raise(e) == [raised |-> e]
NoError == "none"

\* PFUtils.__init__, the default generator being in state g: hashtable holds the
\* permutation torch.randperm draws in that state (entry x is RandPermAt(g, x)).
PFUtilsInit(g) ==
    [built     |-> TRUE,
     hashtable |-> g,
     rng       |-> ManualSeed(config.seed)]

NotBuilt == [built |-> FALSE, hashtable |-> 0, rng |-> ManualSeed(Big(0))]

\* hashint(integer_tensor): self.hashtable[integer_tensor.cpu() % len(self.hashtable)].
\* The argument is [kind |-> "int", val |-> n] for a Python int, which has no .cpu(),
\* and [kind |-> "tensor", val |-> <<...>>] for a LongTensor.
hashint(u, integer_tensor) ==
    IF integer_tensor.kind = "int"
    THEN Raise("AttributeError")
    ELSE [raised |-> NoError,
          val    |-> [i \in DOMAIN integer_tensor.val |->
                         RandPermAt(u.hashtable, integer_tensor.val[i] % TableLen)]]

RECURSIVE SumSeq(_)
SumSeq(s) == IF s = <<>> THEN 0 ELSE Head(s) + SumSeq(Tail(s))

\* get_seed_rng(input_ids): [raised, seed]
get_seed_rng(u, input_ids) ==
    CASE config.seeding = "hash" ->
            [raised |-> NoError,
             seed   |-> HashFold(config.seed, config.salt_key, input_ids)]
      [] config.seeding = "additive" ->
            LET seed == config.salt_key * SumSeq(input_ids)
                h    == hashint(u, [kind |-> "int", val |-> seed])
            IN  IF h.raised # NoError THEN Raise(h.raised)
                ELSE [raised |-> NoError, seed |-> Big(h.val)]
      [] config.seeding = "skip" ->
            IF input_ids = <<>> THEN Raise("IndexError")
            ELSE LET seed == config.salt_key * input_ids[1]
                     h    == hashint(u, [kind |-> "int", val |-> seed])
                 IN  IF h.raised # NoError THEN Raise(h.raised)
                     ELSE [raised |-> NoError, seed |-> Big(h.val)]
      [] config.seeding = "min" ->
            LET h == hashint(u, [kind |-> "tensor",
                                 val  |-> [i \in DOMAIN input_ids |->
                                              config.salt_key * input_ids[i]]])
            IN  IF input_ids = <<>> THEN Raise("RuntimeError")
                ELSE [raised |-> NoError,
                      seed   |-> Big(Min({h.val[i] : i \in DOMAIN h.val}))]

\* -log of a draw after score_tok's rs[rs == 0] = 1e-4, in thousandths
NegLogClamped(level) == IF level = 0 THEN NegLogMilliOfEps ELSE NegLogMilli[level]

\* score_tok, lines 110-111, rs being the vector drawn:
\* rs[rs == 0] = 1e-4; scores = -rs.log().roll(-token_id)
ScoresOf(rs, token_id) ==
    Roll([i \in DOMAIN rs |-> NegLogClamped(rs[i])], -token_id)

\* score_tok(ngram_tokens, token_id): [raised, rng, scores]; scores in thousandths.
score_tok(u, ngram_tokens, token_id) ==
    LET s == get_seed_rng(u, ngram_tokens)
    IN  IF s.raised # NoError THEN [raised |-> s.raised, rng |-> u.rng]
        ELSE LET d == Rand(ManualSeed(s.seed), VocabSize)
             IN  [raised |-> NoError,
                  rng    |-> d.rng,
                  scores |-> ScoresOf(d.rs, token_id)]

\* log_probs[ii][j] - rs.log()[j] for one sorted place: p is the (masked) weight
\* of the place, r the level of its draw.  log(0) = -inf, -inf - (-inf) = nan.
Adjusted(p, r) ==
    [cls |-> CASE p = 0 /\ r = 0 -> "nan"
               [] p > 0 /\ r = 0 -> "+inf"
               [] p = 0 /\ r > 0 -> "-inf"
               [] OTHER          -> "fin",
     p |-> p, r |-> r]

ClsRank(c) == CASE c = "-inf" -> 0 [] c = "fin" -> 1 [] c = "+inf" -> 2 [] OTHER -> 3

\* a > b as floats (neither nan): log(a.p) - log(a.r) > log(b.p) - log(b.r)
AdjGreater(a, b) ==
    IF a.cls = "fin" /\ b.cls = "fin" THEN a.p * b.r > b.p * a.r
    ELSE ClsRank(a.cls) > ClsRank(b.cls)

\* torch.argmax(x): the first place holding the maximum; a nan counts as the maximum.
ArgMax(x) ==
    IF \E j \in DOMAIN x : x[j].cls = "nan"
    THEN Min({j \in DOMAIN x : x[j].cls = "nan"})
    ELSE Min({j \in DOMAIN x : \A k \in DOMAIN x : ~AdjGreater(x[k], x[j])})

\* lines 77-83 for one row: the sorted order and the weights left by the nucleus
\* mask (probs_sum - probs_sort > top_p zeroes a place); the division by the row's
\* sum scales every place alike and is left out.  top_p is num/den.
Nucleus(probs, top_p) ==
    LET probs_idx  == SortIdx(probs)
        probs_sort == [j \in Vocab |-> probs[probs_idx[j]]]
        total      == CumSum(probs_sort, VocabSize - 1)
        mask       == [j \in Vocab |->
                          (CumSum(probs_sort, j) - probs_sort[j]) * top_p.den
                              > top_p.num * total]
    IN  [probs_idx  |-> probs_idx,
         probs_sort |-> [j \in Vocab |-> IF mask[j] THEN 0 ELSE probs_sort[j]]]

\* sample_next, lines 91-97 for one batch element, drawn being the vector the
\* generator served: rs after the roll and the gather, and the token chosen
RowChoice(probs, top_p, drawn) ==
    LET nuc      == Nucleus(probs, top_p)
        rolled   == Roll(drawn, -config.payload)
        rs       == [j \in Vocab |-> rolled[nuc.probs_idx[j]]]
        adjusted == [j \in Vocab |-> Adjusted(nuc.probs_sort[j], rs[j])]
    IN  [rs         |-> rs,
         probs_idx  |-> nuc.probs_idx,
         next_token |-> nuc.probs_idx[ArgMax(adjusted)]]

\* lines 87-97 for batch element ii, the generator being rng:
\* [raised, rng, rs, probs_idx, next_token]
SampleRow(u, rng, probs, ngram_tokens, top_p) ==
    LET s == get_seed_rng(u, ngram_tokens)
    IN  IF s.raised # NoError THEN [raised |-> s.raised, rng |-> rng]
        ELSE LET d   == Rand(ManualSeed(s.seed), VocabSize)
                 row == RowChoice(probs, top_p, d.rs)
             IN  [raised     |-> NoError,
                  rng        |-> d.rng,
                  rs         |-> row.rs,
                  probs_idx  |-> row.probs_idx,
                  next_token |-> row.next_token]

\* torch.argmax(logits): the first token holding the largest logit (the model
\* gives a row as weights, which order the tokens as its logits do).
GreedyToken(probs) ==
    Min({t \in Vocab : \A v \in Vocab : probs[v] <= probs[t]})

\* The loop of sample_next over the batch, from element ii on; acc holds the rows done.
RECURSIVE SampleLoop(_, _, _, _, _, _, _)
SampleLoop(u, rng, probs, ngram_tokens, top_p, ii, acc) ==
    IF ii > Len(ngram_tokens)
    THEN [raised |-> NoError, rng |-> rng, rows |-> acc]
    ELSE LET row == SampleRow(u, rng, probs[ii], ngram_tokens[ii], top_p)
         IN  IF row.raised # NoError
             THEN [raised |-> row.raised, rng |-> row.rng, rows |-> acc]
             ELSE SampleLoop(u, row.rng, probs, ngram_tokens, top_p, ii + 1,
                             Append(acc, row))

\* sample_next(logits, ngram_tokens, temperature, top_p) on a batch: probs and
\* ngram_tokens are sequences of rows; temperature is "zero" or "positive".
\* [raised, rng, next_token, rows]
sample_next(u, probs, ngram_tokens, temperature, top_p) ==
    IF temperature = "positive"
    THEN LET l == SampleLoop(u, u.rng, probs, ngram_tokens, top_p, 1, <<>>)
         IN  IF l.raised # NoError THEN [raised |-> l.raised, rng |-> l.rng]
             ELSE [raised     |-> NoError,
                   rng        |-> l.rng,
                   rows       |-> l.rows,
                   next_token |-> [ii \in DOMAIN probs |-> l.rows[ii].next_token]]
    ELSE [raised     |-> NoError,
          rng        |-> u.rng,
          rows       |-> <<>>,
          next_token |-> [ii \in DOMAIN probs |-> GreedyToken(probs[ii])]]

\* gamma.ppf(1 - alpha, a=k, scale=1) in thousandths, for k = 1 .. 16
GammaPpfMilli(alpha, k) ==
    IF alpha = "0.01"
    THEN <<4605, 6638, 8406, 10045, 11605, 13108, 14571, 16000,
           17403, 18783, 20145, 21490, 22821, 24139, 25446, 26743>>[k]
    ELSE <<2996, 4744, 6296, 7754, 9154, 10513, 11842, 13148,
           14435, 15705, 16962, 18208, 19443, 20669, 21886, 23097>>[k]

\* get_threshold without its short-text guard (gamma.ppf gives nan for a shape
\* k <= 0, and nothing exceeds nan)
get_threshold_unguarded(n_tokens, alpha) ==
    LET k == n_tokens - config.ngram
    IN  [inf |-> FALSE, milli |-> IF k >= 1 THEN GammaPpfMilli(alpha, k) ELSE 0]

\* get_threshold(n_tokens, alpha): float('inf') is [inf |-> TRUE]
get_threshold(n_tokens, alpha) ==
    IF n_tokens <= config.ngram
    THEN [inf |-> TRUE, milli |-> 0]
    ELSE LET k == n_tokens - config.ngram
         IN  [inf |-> FALSE, milli |-> GammaPpfMilli(alpha, k)]

\* rt[:payload_max + 1]
Truncate(rt, payload_max) ==
    LET n == IF payload_max + 1 > VocabSize THEN VocabSize ELSE payload_max + 1
    IN  [m \in 0 .. (n - 1) |-> rt[m]]

\* get_scores_by_t, line 149
start_pos(ngram) == ngram + 1

\* A dedup that never records the tuple it scored
SeenAfterForgetting(seen_ntuples, scoring_method, tup_for_unique) == seen_ntuples

\* seen_ntuples.add(tup_for_unique), under 'v1' and 'v2' (lines 158, 163)
SeenAfter(seen_ntuples, scoring_method, tup_for_unique) ==
    IF scoring_method \in {"v1", "v2"} THEN seen_ntuples \cup {tup_for_unique}
    ELSE seen_ntuples

\* The loop of get_scores_by_t over the positions of one text, from cur_pos on
\* (lines 152-166); rng is self.rng as the calls of score_tok so far left it:
\* [raised, rng, rts]
RECURSIVE ScorePositions(_, _, _, _, _, _, _, _)
ScorePositions(u, rng, tokens, scoring_method, payload_max, cur_pos, seen_ntuples, rts) ==
    IF cur_pos >= Len(tokens)
    THEN [raised |-> NoError, rng |-> rng, rts |-> rts]
    ELSE LET ngram_tokens   == PySlice(tokens, cur_pos - config.ngram, cur_pos)
             tup_for_unique ==
                 IF scoring_method = "v1" THEN ngram_tokens
                 ELSE ngram_tokens \o PySlice(tokens, cur_pos, cur_pos + 1)
             dedup == scoring_method \in {"v1", "v2"}
         IN  IF dedup /\ tup_for_unique \in seen_ntuples
             THEN ScorePositions(u, rng, tokens, scoring_method, payload_max,
                                 cur_pos + 1, seen_ntuples, rts)
             ELSE LET rt == score_tok(u, ngram_tokens, tokens[cur_pos + 1])
                  IN  IF rt.raised # NoError
                      THEN [raised |-> rt.raised, rng |-> rng, rts |-> rts]
                      ELSE ScorePositions(u, rt.rng, tokens,
                               scoring_method, payload_max, cur_pos + 1,
                               SeenAfter(seen_ntuples, scoring_method, tup_for_unique),
                               Append(rts, Truncate(rt.scores, payload_max)))

\* The loop of get_scores_by_t over the texts, from text ii on (lines 147-167).
RECURSIVE ScoreTexts(_, _, _, _, _, _, _)
ScoreTexts(u, rng, tokens_id, scoring_method, payload_max, ii, score_lists) ==
    IF ii > Len(tokens_id)
    THEN [raised |-> NoError, rng |-> rng, score_lists |-> score_lists]
    ELSE LET r == ScorePositions(u, rng, tokens_id[ii], scoring_method, payload_max,
                                 start_pos(config.ngram), {}, <<>>)
         IN  IF r.raised # NoError THEN [raised |-> r.raised, rng |-> r.rng]
             ELSE ScoreTexts(u, r.rng, tokens_id, scoring_method, payload_max,
                             ii + 1, Append(score_lists, r.rts))

\* ntoks_max: None is [is_none |-> TRUE, val |-> 0]
None == [is_none |-> TRUE, val |-> 0]
SomeInt(n) == [is_none |-> FALSE, val |-> n]

\* get_scores_by_t(texts, scoring_method, ntoks_max, payload_max); a text is given
\* by the token ids the tokenizer encodes it to: [raised, rng, score_lists]
get_scores_by_t(u, texts, scoring_method, ntoks_max, payload_max) ==
    LET tokens_id == [ii \in DOMAIN texts |->
                        IF ntoks_max.is_none THEN texts[ii]
                        ELSE PySlice(texts[ii], 0, ntoks_max.val)]
    IN  ScoreTexts(u, u.rng, tokens_id, scoring_method, payload_max, 1, <<>>)

\* sum(scores): the elementwise sum of the vectors of one text
RECURSIVE SumVectors(_)
SumVectors(scores) ==
    IF Len(scores) = 1 THEN scores[1]
    ELSE LET rest == SumVectors(Tail(scores))
         IN  [m \in DOMAIN scores[1] |-> scores[1][m] + rest[m]]

\* get_scores(score_lists): per text, the int 0 or the summed tensor
get_scores(score_lists) ==
    [ii \in DOMAIN score_lists |->
        IF Len(score_lists[ii]) = 0
        THEN [kind |-> "int", val |-> <<0>>]
        ELSE [kind |-> "tensor", val |-> SumVectors(score_lists[ii])]]

\* score > threshold, score being the int 0 or a one-element tensor
ScoreExceeds(score, threshold) ==
    IF threshold.inf THEN FALSE
    ELSE IF score.kind = "int" THEN score.val[1] > threshold.milli
    ELSE score.val[0] > threshold.milli

\* PF.detect_watermark(text, alpha, scoring_method, ntoks_max):
\* [raised, rng, result, scores, score, threshold]
detect_watermark(u, text, alpha, scoring_method, ntoks_max) ==
    LET scores == get_scores_by_t(u, text, "none", ntoks_max, 0)
    IN  IF scores.raised # NoError THEN [raised |-> scores.raised, rng |-> scores.rng]
        ELSE IF Len(text) = 0 THEN [raised |-> "IndexError", rng |-> scores.rng]
        ELSE LET score     == get_scores(scores.score_lists)
                 threshold == get_threshold(Len(scores.score_lists[1]), alpha)
             IN  [raised    |-> NoError,
                  rng       |-> scores.rng,
                  result    |-> [kind |-> "int",
                                 val  |-> IF ScoreExceeds(score[1], threshold)
                                          THEN 1 ELSE 0],
                  scores    |-> scores.score_lists,
                  score     |-> score,
                  threshold |-> threshold]

----------------------------------------------------------------------------
(* Inputs *)

SeedingSet == {"hash", "additive", "skip", "min"}
SaltKeySet == {35}
\* config.seed: 42, and 2^64 - 2 (the fold wraps around the modulus)
SeedSet == {Big(42), BigBelowModulus(1)}

Configs(ngrams, seeds, payloads) ==
    [seeding : SeedingSet, ngram : ngrams, salt_key : SaltKeySet, seed : seeds,
     payload : payloads, max_seq_len : {MaxSeqLen}]

\* The token lists of length n
Tuples(n) == [1 .. n -> Vocab]

\* The rows the language model gives: weights over the vocabulary, no two equal
ProbsSet ==
    {[t \in Vocab |-> t + 1],
     [t \in Vocab |-> 2 * (VocabSize - t) - 1],
     [t \in Vocab |-> IF t = 1 THEN 5 * VocabSize ELSE t + 1]}

TemperatureSet == {"zero", "positive"}
\* top_p: 1.0 and 0.5
TopPSet == {[num |-> 1, den |-> 1], [num |-> 1, den |-> 2]}

GenIdle == [pc |-> "idle"]
ThrIdle == <<>>

----------------------------------------------------------------------------
(* Spec: two PFUtils instances built from one configuration, and calls on them. *)
(* inp holds the arguments the calls of a behaviour are made with.              *)

CallInputs(ngram) ==
    [op : {"get_seed_rng"}, input_ids : Tuples(ngram)]
    \cup [op : {"score_tok"}, ngram_tokens : Tuples(ngram), token_id : Vocab]
    \cup [op : {"sample_next"}, probs : ProbsSet, ngram_tokens : Tuples(ngram),
          temperature : TemperatureSet, top_p : TopPSet]

Init ==
    /\ config \in Configs(1 .. MaxNgram, SeedSet, 0 .. MaxPayload)
    /\ inp \in CallInputs(config.ngram)
    /\ default_rng = 0
    /\ utils = [i \in Inst |-> NotBuilt]
    /\ ret = [op |-> "none"]
    /\ gen = GenIdle
    /\ thr = ThrIdle

\* PFUtils(config): torch.randperm advances the default generator
Construct(i) ==
    /\ ~utils[i].built
    /\ utils' = [utils EXCEPT ![i] = PFUtilsInit(default_rng)]
    /\ default_rng' = default_rng + 1
    /\ ret' = [op |-> "__init__", inst |-> i]
    /\ UNCHANGED <<config, inp, gen, thr>>

GetSeedRng(i) ==
    /\ utils[i].built
    /\ inp.op = "get_seed_rng"
    /\ ret' = [op |-> "get_seed_rng", inst |-> i,
               out |-> get_seed_rng(utils[i], inp.input_ids)]
    /\ UNCHANGED <<config, inp, default_rng, utils, gen, thr>>

ScoreTok(i) ==
    /\ utils[i].built
    /\ inp.op = "score_tok"
    /\ \E out \in {score_tok(utils[i], inp.ngram_tokens, inp.token_id)} :
           /\ utils' = [utils EXCEPT ![i].rng = out.rng]
           /\ ret' = [op |-> "score_tok", inst |-> i, out |-> out]
    /\ UNCHANGED <<config, inp, default_rng, gen, thr>>

SampleNext(i) ==
    /\ utils[i].built
    /\ inp.op = "sample_next"
    /\ \E out \in {sample_next(utils[i], <<inp.probs>>, <<inp.ngram_tokens>>,
                               inp.temperature, inp.top_p)} :
           /\ utils' = [utils EXCEPT ![i].rng = out.rng]
           /\ ret' = [op |-> "sample_next", inst |-> i, out |-> out]
    /\ UNCHANGED <<config, inp, default_rng, gen, thr>>

Next ==
    \/ \E i \in Inst : Construct(i)
    \/ \E i \in Inst : GetSeedRng(i)
    \/ \E i \in Inst : ScoreTok(i)
    \/ \E i \in Inst : SampleNext(i)

Spec == Init /\ [][Next]_vars

----------------------------------------------------------------------------
(* SpecDetect: one PF instance, and a detection call on it *)

\* The token lists of at most n tokens
RECURSIVE TextsUpTo(_)
TextsUpTo(n) == IF n = 0 THEN {<<>>} ELSE TextsUpTo(n - 1) \cup Tuples(n)

\* phrase repeated reps times
RECURSIVE Repeat(_, _)
Repeat(phrase, reps) == IF reps = 0 THEN <<>> ELSE phrase \o Repeat(phrase, reps - 1)

\* The lists of texts detection is given: none, one text, or two texts (of which
\* one has at most one token, the other at most one or MaxTextLen equal tokens)
TextLists ==
    LET short == TextsUpTo(1)
        long  == {Repeat(<<v>>, MaxTextLen) : v \in Vocab}
    IN  {<<>>}
        \cup {<<t>> : t \in TextsUpTo(MaxTextLen)}
        \cup {<<t, u>> : t \in short, u \in short \cup long}
        \cup {<<t, u>> : t \in long, u \in short}

AlphaSet == {"0.01", "0.05"}
MethodSet == {"none", "v1", "v2"}

\* Calls on the texts of at most MaxTextLen tokens are made under ngram <=
\* MaxNgram; calls on a repeated phrase under every ngram up to PhraseNgram.
DetectInputs(ngram) ==
    (IF ngram > MaxNgram THEN {}
     ELSE [op : {"detect_watermark"}, text : TextLists, alpha : AlphaSet,
           scoring_method : MethodSet, ntoks_max : {None, SomeInt(MaxTextLen - 1)}]
          \cup [op : {"get_scores_by_t"}, texts : {<<t>> : t \in TextsUpTo(MaxTextLen)},
                scoring_method : MethodSet, ntoks_max : {None},
                payload_max : {0, MaxPayload}, reps : {0}])
    \cup [op : {"get_scores_by_t"},
          texts : {<<Repeat(phrase, 1)>> : phrase \in Tuples(ngram)},
          scoring_method : {"v1", "v2"}, ntoks_max : {None},
          payload_max : {0}, reps : 1 .. MaxReps]

\* The texts of a get_scores_by_t input: inp.reps > 0 stands for the one phrase
\* of inp.texts repeated inp.reps times
InputTexts ==
    IF inp.reps = 0 THEN inp.texts ELSE <<Repeat(inp.texts[1], inp.reps)>>

InitDetect ==
    /\ config \in Configs(1 .. PhraseNgram, {Big(42)}, {0})
    /\ inp \in DetectInputs(config.ngram)
    /\ default_rng = 1
    /\ utils = [i \in Inst |-> IF i = 1 THEN PFUtilsInit(0) ELSE NotBuilt]
    /\ ret = [op |-> "none"]
    /\ gen = GenIdle
    /\ thr = ThrIdle

GetScoresByT ==
    /\ inp.op = "get_scores_by_t"
    /\ \E out \in {get_scores_by_t(utils[1], InputTexts, inp.scoring_method,
                                   inp.ntoks_max, inp.payload_max)} :
           /\ utils' = [utils EXCEPT ![1].rng = out.rng]
           /\ ret' = [op |-> "get_scores_by_t", out |-> out]
    /\ UNCHANGED <<config, inp, default_rng, gen, thr>>

DetectWatermark ==
    /\ inp.op = "detect_watermark"
    /\ \E out \in {detect_watermark(utils[1], inp.text, inp.alpha,
                                    inp.scoring_method, inp.ntoks_max)} :
           /\ utils' = [utils EXCEPT ![1].rng = out.rng]
           /\ ret' = [op |-> "detect_watermark", out |-> out]
    /\ UNCHANGED <<config, inp, default_rng, gen, thr>>

NextDetect == GetScoresByT \/ DetectWatermark

SpecDetect == InitDetect /\ [][NextDetect]_vars

----------------------------------------------------------------------------
(* SpecGen: PF.generate_watermarked_text on one PF instance, one decoding step *)
(* of the loop at a time; the language model's rows are the environment's.    *)

\* generation_tokenizer.eos_token_id, and pad_id when pad_token_id is None
EosId == VocabSize - 1
PadId == EosId

Prompts == TextsUpTo(MaxPromptLen) \ {<<>>}

GenInputs ==
    [prompts : {<<a>> : a \in Prompts} \cup {<<a, b>> : a \in Prompts, b \in Prompts},
     max_gen_len : 1 .. MaxGenLen,
     temperature : TemperatureSet,
     top_p : TopPSet]

MaxOf(S) == CHOOSE x \in S : \A y \in S : y <= x

InitGen ==
    /\ config \in Configs(1 .. MaxNgram, {Big(42)}, {0})
    /\ inp \in GenInputs
    /\ default_rng = 1
    /\ utils = [i \in Inst |-> IF i = 1 THEN PFUtilsInit(0) ELSE NotBuilt]
    /\ ret = [op |-> "none"]
    /\ gen = GenIdle
    /\ thr = ThrIdle

\* lines 208-220: the token matrix, the prompt mask, the first position
GenStart ==
    /\ gen.pc = "idle"
    /\ LET prompt_tokens   == inp.prompts
           sizes           == {Len(prompt_tokens[k]) : k \in DOMAIN prompt_tokens}
           min_prompt_size == Min(sizes)
           max_prompt_size == MaxOf(sizes)
           total_len       == Min({config.max_seq_len,
                                   inp.max_gen_len + max_prompt_size})
           tokens          == [k \in DOMAIN prompt_tokens |->
                                 [c \in 1 .. total_len |->
                                     IF c <= Len(prompt_tokens[k])
                                     THEN prompt_tokens[k][c] ELSE PadId]]
       IN  IF \E k \in DOMAIN prompt_tokens : Len(prompt_tokens[k]) > total_len
           THEN gen' = [pc |-> "raised", raised |-> "RuntimeError", steps |-> 0]
           ELSE gen' = [pc               |-> "loop",
                        total_len        |-> total_len,
                        tokens           |-> tokens,
                        input_text_mask  |-> [k \in DOMAIN tokens |->
                                                [c \in 1 .. total_len |->
                                                    tokens[k][c] # PadId]],
                        cur_pos          |-> min_prompt_size,
                        prev_pos         |-> 0,
                        steps            |-> 0,
                        ngram_tokens     |-> <<>>]
    /\ UNCHANGED <<config, inp, default_rng, utils, ret, thr>>

\* lines 221-229: one iteration of the loop at cur_pos, the model giving `rows`
GenStep(rows) ==
    /\ gen.pc = "loop"
    /\ gen.cur_pos < gen.total_len
    /\ \E cur_pos \in {gen.cur_pos} :
       \E ngram_tokens \in {[k \in DOMAIN gen.tokens |->
                PySlice(gen.tokens[k], cur_pos - config.ngram, cur_pos)]} :
       \E out \in {sample_next(utils[1], rows, ngram_tokens,
                                inp.temperature, inp.top_p)} :
           /\ utils' = [utils EXCEPT ![1].rng = out.rng]
           /\ IF out.raised # NoError
              THEN gen' = [gen EXCEPT !.pc = "raised", !.steps = @ + 1,
                                      !.ngram_tokens = ngram_tokens]
              ELSE gen' = [gen EXCEPT
                     !.tokens = [k \in DOMAIN gen.tokens |->
                                   [gen.tokens[k] EXCEPT ![cur_pos + 1] =
                                       IF gen.input_text_mask[k][cur_pos + 1]
                                       THEN @ ELSE out.next_token[k]]],
                     !.prev_pos = cur_pos,
                     !.cur_pos = cur_pos + 1,
                     !.steps = @ + 1,
                     !.ngram_tokens = ngram_tokens]
    /\ UNCHANGED <<config, inp, default_rng, ret, thr>>

\* t[: t.index(eos_id)] when eos_id is in t
CutAtEos(t) ==
    IF \E c \in DOMAIN t : t[c] = EosId
    THEN PySlice(t, 0, Min({c \in DOMAIN t : t[c] = EosId}) - 1)
    ELSE t

\* lines 231-242: cut each row to max_gen_len past its prompt, then at eos
GenFinish ==
    /\ gen.pc = "loop"
    /\ gen.cur_pos >= gen.total_len
    /\ gen' = [gen EXCEPT !.pc = "done"]
    /\ ret' = [op |-> "generate_watermarked_text",
               out |-> [k \in DOMAIN gen.tokens |->
                          CutAtEos(PySlice(gen.tokens[k], 0,
                                           Len(inp.prompts[k]) + inp.max_gen_len))]]
    /\ UNCHANGED <<config, inp, default_rng, utils, thr>>

NextGen ==
    \/ GenStart
    \/ \E rows \in [DOMAIN inp.prompts -> ProbsSet] : GenStep(rows)
    \/ GenFinish

SpecGen == InitGen /\ [][NextGen]_vars

----------------------------------------------------------------------------
(* SpecConc: calls of score_tok and sample_next (one sequence) made by callers  *)
(* running concurrently on one PFUtils; each call re-seeds self.rng (lines 88, *)
(* 108) and then draws from it (lines 90, 109), and the callers interleave     *)
(* between the two.                                                            *)

Callers == 1 .. NCallers

ConcCalls(ngram) ==
    [op : {"score_tok"}, ngram_tokens : Tuples(ngram), token_id : Vocab]
    \cup [op : {"sample_next"}, probs : ProbsSet, ngram_tokens : Tuples(ngram),
          top_p : {[num |-> 1, den |-> 1]}]

InitConc ==
    /\ config \in Configs(1 .. MaxNgram, {Big(42)}, 0 .. MaxPayload)
    /\ inp \in [Callers -> ConcCalls(config.ngram)]
    /\ default_rng = 1
    /\ utils = [i \in Inst |-> IF i = 1 THEN PFUtilsInit(0) ELSE NotBuilt]
    /\ ret = [op |-> "none"]
    /\ gen = GenIdle
    /\ thr = [t \in Callers |-> [pc |-> "called"]]

\* lines 87-88 and 107-108: seed = self.get_seed_rng(...); self.rng.manual_seed(seed)
Reseed(t) ==
    /\ thr[t].pc = "called"
    /\ LET s == get_seed_rng(utils[1], inp[t].ngram_tokens)
       IN  IF s.raised # NoError
           THEN /\ thr' = [thr EXCEPT ![t] = [pc |-> "raised", raised |-> s.raised]]
                /\ UNCHANGED utils
           ELSE /\ thr' = [thr EXCEPT ![t] = [pc |-> "seeded", seed |-> s.seed]]
                /\ utils' = [utils EXCEPT ![1].rng = ManualSeed(s.seed)]
    /\ UNCHANGED <<config, inp, default_rng, ret, gen>>

\* lines 90-97 and 109-112: rs = torch.rand(vocab_size, generator=self.rng), and
\* what the call makes of rs
Draw(t) ==
    /\ thr[t].pc = "seeded"
    /\ LET d == Rand(utils[1].rng, VocabSize)
       IN  /\ utils' = [utils EXCEPT ![1].rng = d.rng]
           /\ thr' = [thr EXCEPT ![t] =
                  [pc    |-> "returned",
                   seed  |-> thr[t].seed,
                   drawn |-> d.rs,
                   out   |-> IF inp[t].op = "score_tok"
                             THEN ScoresOf(d.rs, inp[t].token_id)
                             ELSE <<RowChoice(inp[t].probs, inp[t].top_p,
                                              d.rs).next_token>>]]
    /\ UNCHANGED <<config, inp, default_rng, ret, gen>>

NextConc == \E t \in Callers : Reseed(t) \/ Draw(t)

SpecConc == InitConc /\ [][NextConc]_vars

----------------------------------------------------------------------------
(* Claims checked under Spec *)

\* The vector a generator seeded from context c serves, on instance u
DrawnVector(u, c) == Rand(ManualSeed(get_seed_rng(u, c).seed), VocabSize).rs

\* C1 (as claimed): two PFUtils instances built from the same configuration
\* return the same SeedValue, and draw the same vector, for every context,
\* whatever calls were made on either before.
C1_SameSeedOnBothInstances ==
    (utils[1].built /\ utils[2].built) =>
        \A c \in Tuples(config.ngram) :
            LET a == get_seed_rng(utils[1], c)
                b == get_seed_rng(utils[2], c)
            IN  (a.raised = NoError /\ b.raised = NoError) =>
                    /\ a.seed = b.seed
                    /\ DrawnVector(utils[1], c) = DrawnVector(utils[2], c)

\* The value each seeding strategy defines for context c, as the claim C8 gives it
SeedAsClaimed(u, c) ==
    CASE config.seeding = "hash" -> HashFold(config.seed, config.salt_key, c)
      [] config.seeding = "additive" ->
            Big(RandPermAt(u.hashtable, (config.salt_key * SumSeq(c)) % TableLen))
      [] config.seeding = "skip" ->
            Big(RandPermAt(u.hashtable, (config.salt_key * c[1]) % TableLen))
      [] config.seeding = "min" ->
            Big(Min({RandPermAt(u.hashtable, (config.salt_key * c[i]) % TableLen) :
                        i \in DOMAIN c}))

\* C8 (as claimed): for every context window of ngram token ids get_seed_rng
\* returns, without raising, the value the selected strategy defines.
C8_SeedIsStrategyValue ==
    ret.op = "get_seed_rng" =>
        /\ ret.out.raised = NoError
        /\ ret.out.seed = SeedAsClaimed(utils[ret.inst], inp.input_ids)

\* C9 (amended): with r the vector drawn for the context, the value sample_next
\* subtracts (as log r) from the log-probability of token t under payload m is
\* r[(t + m) mod V]; entry m of the vector score_tok returns for token t is
\* -log r'[(t + m) mod V], r' being r with exact-zero draws replaced by 1e-4;
\* truncating to payload_max + 1 entries keeps entry m for m <= payload_max.
C9_RotationsAgree ==
    /\ (ret.op = "sample_next" /\ inp.temperature = "positive"
            /\ ret.out.raised = NoError) =>
          LET r   == DrawnVector(utils[ret.inst], inp.ngram_tokens)
              row == ret.out.rows[1]
          IN  \A j \in Vocab :
                row.rs[j] = r[(row.probs_idx[j] + config.payload) % VocabSize]
    /\ (ret.op = "score_tok" /\ ret.out.raised = NoError) =>
          LET r == DrawnVector(utils[ret.inst], inp.ngram_tokens)
          IN  /\ \A m \in Vocab :
                    ret.out.scores[m] =
                        NegLogClamped(r[(inp.token_id + m) % VocabSize])
              /\ \A payload_max \in 0 .. MaxPayload : \A m \in 0 .. payload_max :
                    Truncate(ret.out.scores, payload_max)[m] =
                        NegLogClamped(r[(inp.token_id + m) % VocabSize])

\* C9 witness: a watermarked sampling call under a payload that moves the vector
C9_Witness ==
    /\ ret.op = "sample_next" /\ inp.temperature = "positive"
    /\ ret.out.raised = NoError
    /\ config.payload > 0
    /\ \E j \in Vocab :
          ret.out.rows[1].rs[j] #
              DrawnVector(utils[ret.inst], inp.ngram_tokens)[ret.out.rows[1].probs_idx[j]]

\* C9 (as claimed): entry m of the vector score_tok returns for token t is
\* -log r[(t + m) mod V] for the very r that sample_next uses (no clamping).
C9_ScoreIsNegLogOfDraw ==
    (ret.op = "score_tok" /\ ret.out.raised = NoError) =>
        LET r == DrawnVector(utils[ret.inst], inp.ngram_tokens)
        IN  \A m \in Vocab :
              LET level == r[(inp.token_id + m) % VocabSize]
              IN  level > 0 /\ ret.out.scores[m] = NegLogMilli[level]

----------------------------------------------------------------------------
(* Claims checked under SpecDetect *)

\* C2: when every text given to detect_watermark has at most ngram tokens (the
\* empty text included), it raises nothing and returns 0, whatever the tokens,
\* alpha, scoring_method and ntoks_max: the score is 0, the threshold +infinity.
C2_ShortTextNotWatermarked ==
    (/\ ret.op = "detect_watermark"
     /\ Len(inp.text) >= 1
     /\ \A i \in DOMAIN inp.text : Len(inp.text[i]) <= config.ngram) =>
        /\ ret.out.raised = NoError
        /\ ret.out.result = [kind |-> "int", val |-> 0]
        /\ ret.out.score[1] = [kind |-> "int", val |-> <<0>>]
        /\ ret.out.threshold.inf

\* C2 witness: detection has returned for a text of exactly ngram tokens
C2_Witness ==
    /\ ret.op = "detect_watermark"
    /\ Len(inp.text) = 1
    /\ Len(inp.text[1]) = config.ngram
    /\ inp.scoring_method = "v1"
    /\ ret.out.raised = NoError
    /\ ret.out.result.val = 0

\* The number of distinct cyclic rotations of a phrase (its least cyclic period)
Period(phrase) ==
    LET n == Len(phrase)
    IN  Min({q \in 1 .. n :
                \A i \in 1 .. n : phrase[i] = phrase[((i - 1 + q) % n) + 1]})

\* The positions get_scores_by_t evaluates in a phrase of ngram tokens repeated
\* reps times: range(ngram + 1, reps * ngram)
EvaluatedPositions(reps) ==
    IF (reps - 1) * config.ngram - 1 > 0 THEN (reps - 1) * config.ngram - 1 ELSE 0

\* C3 (amended): for a phrase of ngram tokens repeated reps times, 'v1' scores one
\* position per distinct context window among the evaluated positions: as many
\* as the phrase has distinct rotations (up to ngram), or every evaluated position
\* when there are fewer; under the seedings whose get_seed_rng raises
\* (additive, skip: C8) the call raises at the first of them instead.
C3_V1ScoresOnePositionPerRotation ==
    (ret.op = "get_scores_by_t" /\ inp.reps >= 1 /\ inp.scoring_method = "v1") =>
        LET kept == Min({Period(inp.texts[1]), EvaluatedPositions(inp.reps)})
        IN  IF config.seeding \in {"hash", "min"} \/ kept = 0
            THEN /\ ret.out.raised = NoError
                 /\ Len(ret.out.score_lists[1]) = kept
            ELSE ret.out.raised = "AttributeError"

\* C3 witness: the largest phrase, repeated the most, all tokens of the phrase
\* in distinct rotations: ngram positions are scored
C3_Witness ==
    /\ ret.op = "get_scores_by_t" /\ inp.scoring_method = "v1"
    /\ config.ngram = PhraseNgram /\ inp.reps = MaxReps
    /\ ret.out.raised = NoError
    /\ Len(ret.out.score_lists[1]) = PhraseNgram

\* C3 (as claimed): for a phrase of ngram tokens repeated several times, 'v1'
\* produces exactly one scored position.
C3_V1ScoresExactlyOnePosition ==
    (/\ ret.op = "get_scores_by_t" /\ inp.reps >= 3 /\ inp.scoring_method = "v1"
     /\ ret.out.raised = NoError) =>
        Len(ret.out.score_lists[1]) = 1

\* C4 (as claimed): the score detect_watermark compares to the threshold is the
\* sum over the positions that the dedup policy of the scoring_method passed
\* to it keeps.
C4_DetectAppliesScoringMethod ==
    (ret.op = "detect_watermark" /\ ret.out.raised = NoError) =>
        LET kept == get_scores_by_t(utils[1], inp.text, inp.scoring_method,
                                    inp.ntoks_max, 0)
        IN  /\ kept.raised = NoError
            /\ ret.out.score[1] = get_scores(kept.score_lists)[1]

\* The decision for one text taken alone
DecisionAlone(t) ==
    detect_watermark(utils[1], <<t>>, inp.alpha, inp.scoring_method,
                     inp.ntoks_max).result.val

\* C5 (as claimed): given k texts, detect_watermark returns one decision per
\* text, the decision for text i being that of text i alone.
C5_OneDecisionPerText ==
    (ret.op = "detect_watermark" /\ ret.out.raised = NoError /\ Len(inp.text) >= 2) =>
        /\ ret.out.result.kind = "list"
        /\ ret.out.result.val = [i \in DOMAIN inp.text |-> DecisionAlone(inp.text[i])]

\* C6 (as claimed): for a text of n_tokens tokens (after the ntoks_max cut) the
\* threshold is the (1 - alpha)-quantile of Gamma(k = n_tokens - ngram), and
\* +infinity only when n_tokens <= ngram.
C6_ThresholdShapeIsTokensMinusNgram ==
    (ret.op = "detect_watermark" /\ ret.out.raised = NoError) =>
        LET tokens   == IF inp.ntoks_max.is_none THEN inp.text[1]
                        ELSE PySlice(inp.text[1], 0, inp.ntoks_max.val)
            n_tokens == Len(tokens)
        IN  IF n_tokens <= config.ngram
            THEN ret.out.threshold.inf
            ELSE ret.out.threshold =
                    [inf |-> FALSE,
                     milli |-> GammaPpfMilli(inp.alpha, n_tokens - config.ngram)]

----------------------------------------------------------------------------
(* Claims checked under SpecGen *)

\* C10 (as claimed): at every decoding step the window handed to sample_next
\* for each sequence has exactly ngram token ids, those at positions
\* cur_pos - ngram .. cur_pos - 1 of the sequence (the window get_scores_by_t
\* takes for position cur_pos), also for prompts shorter than ngram tokens.
C10_WindowHasNgramTokens ==
    (gen.pc # "idle" /\ gen.steps > 0) =>
        LET cur_pos == IF gen.pc = "raised" THEN gen.cur_pos ELSE gen.prev_pos
        IN  \A k \in DOMAIN gen.tokens :
              /\ Len(gen.ngram_tokens[k]) = config.ngram
              /\ cur_pos >= config.ngram
              /\ \A i \in 1 .. config.ngram :
                    gen.ngram_tokens[k][i] = gen.tokens[k][cur_pos - config.ngram + i]

----------------------------------------------------------------------------
(* Claims checked under SpecConc *)

\* C7 (as claimed): when two calls on the same instance run concurrently, in
\* every interleaving of their re-seed and draw steps each call that returns has
\* drawn exactly the vector its own context's seed determines.
C7_CallDrawsItsOwnVector ==
    \A t \in DOMAIN thr :
        thr[t].pc = "returned" =>
            thr[t].drawn = DrawnVector(utils[1], inp[t].ngram_tokens)

====
